---------------------------- MODULE Spec2Model ----------------------------
(***************************************************************************)
(* A model of the ntfy client's App component (src/src/App.jsx): the       *)
(* streaming subscription (subscribe), the React state it updates, the     *)
(* history and recent-topics entries it keeps in localStorage, and the     *)
(* user actions that interleave with the read loop.                        *)
(*                                                                         *)
(* Text is modelled as a sequence of tokens.  "NL" is the newline, "SP" a  *)
(* blank; "{" and "}" open and close a JSON object; "i1", "i2", ... are    *)
(* the members "id":"1", "id":"2", ..., "i0" is "id":"" (present, falsy),  *)
(* "m" is "message":"hi", "t" is "time":1700000000 and "x" is text that is *)
(* not JSON.  A chunk boundary may fall between any two tokens.            *)
(*                                                                         *)
(* React state set by a value or an updater is not changed by the call:    *)
(* the update is queued and applied by the next render.  The model keeps   *)
(* the queues of the two states whose updaters write localStorage          *)
(* (messages, previousTopics); connected and errorInfo are set by value    *)
(* only and hold the value of the latest call.                             *)
(***************************************************************************)
EXTENDS Integers, Sequences, FiniteSets, TLC

(* ------------------------------ bounds -------------------------------- *)

\* What the user and the server do in one run of Spec: changes of topic or
\* server, clicks on Clear Messages and chunks delivered, taken together.
MaxEvents == 2

\* What the user does in one run of SpecTopics: topics typed, recent topics
\* clicked and recent topics removed, taken together.
MaxTopicEvents == 3

\* The records of the long stream of SpecStream: two more than the history
\* keeps.
MaxRecords == 52

\* The tokens of the longest chunk a read of SpecStream gives: two records
\* and the start of a third.
MaxChunk == 12

\* The tokens of the longest of the short stream texts of SpecStream.
MaxText == 4

(* ------------------------- program constants -------------------------- *)

\* src/src/App.jsx:182  .slice(0, 50)
HistoryCap == 50

\* src/src/App.jsx:230  .slice(0, 10)
TopicCap == 10

(* ------------------------------ text ---------------------------------- *)

NL == "NL"
SP == "SP"

Whitespace == {NL, SP}

\* String.prototype.trim: strip the blanks at both ends.
RECURSIVE TrimLeft(_)
TrimLeft(s) ==
    IF s # <<>> /\ Head(s) \in Whitespace THEN TrimLeft(Tail(s)) ELSE s

RECURSIVE TrimRight(_)
TrimRight(s) ==
    IF s # <<>> /\ s[Len(s)] \in Whitespace
    THEN TrimRight(SubSeq(s, 1, Len(s) - 1))
    ELSE s

Trim(s) == TrimRight(TrimLeft(s))

\* buffer.split('\n'): k newlines give k + 1 segments, the last one the
\* text after the last newline.
RECURSIVE Split(_)
Split(s) ==
    IF \E i \in 1..Len(s) : s[i] = NL
    THEN LET i == CHOOSE j \in 1..Len(s) :
                      s[j] = NL /\ \A k \in 1..(j - 1) : s[k] # NL
         IN  <<SubSeq(s, 1, i - 1)>> \o Split(SubSeq(s, i + 1, Len(s)))
    ELSE <<s>>

Undefined == "undefined"

\* The member "id":"n" for n >= 1; "i0" is the member "id":"".
IdToken(n) == "i" \o ToString(n)

IdTokens == {IdToken(n) : n \in 0..(MaxRecords + 1)}

FieldTokens == IdTokens \cup {"m", "t"}

IdValues ==
    [tok \in IdTokens |->
        LET n == CHOOSE k \in 0..(MaxRecords + 1) : IdToken(k) = tok
        IN  IF n = 0 THEN "" ELSE ToString(n)]

IdOfToken(tok) == IdValues[tok]

\* The value of member "id" of an object with these members: the last one
\* given wins, undefined when there is none.
RECURSIVE LastId(_)
LastId(fields) ==
    IF fields = <<>> THEN Undefined
    ELSE LET last == fields[Len(fields)]
         IN  IF last \in IdTokens THEN IdOfToken(last)
             ELSE LastId(SubSeq(fields, 1, Len(fields) - 1))

HasToken(fields, tok) == \E i \in 1..Len(fields) : fields[i] = tok

\* JSON.parse(line): blanks between tokens are skipped; the text must be one
\* object.  ok = FALSE stands for the SyntaxError.
Parse(line) ==
    LET body   == SelectSeq(line, LAMBDA c : c \notin Whitespace)
        n      == Len(body)
        fields == SubSeq(body, 2, n - 1)
    IN  IF /\ n >= 2
           /\ body[1] = "{"
           /\ body[n] = "}"
           /\ \A k \in 2..(n - 1) : body[k] \in FieldTokens
        THEN [ok      |-> TRUE,
              id      |-> LastId(fields),
              message |-> IF HasToken(fields, "m") THEN "hi" ELSE Undefined,
              time    |-> HasToken(fields, "t")]
        ELSE [ok |-> FALSE, id |-> Undefined, message |-> Undefined,
              time |-> FALSE]

\* JavaScript truthiness of a string-or-undefined value.
Truthy(v) == v # Undefined /\ v # ""

\* IsValidEvent without the test of id.
IsValidEventAnyId(p) == p.ok /\ p.message # Undefined /\ p.message # ""

\* parsedData.id && parsedData.message
IsValidEvent(p) == p.ok /\ Truthy(p.id) /\ Truthy(p.message)

\* The object kept in history for an accepted line.
EventOf(p) == [id |-> p.id, message |-> p.message, time |-> p.time]

(* ----------------------------- sequences ------------------------------- *)

\* Array.prototype.slice(0, n)
Take(s, n) == SubSeq(s, 1, IF Len(s) < n THEN Len(s) ELSE n)

\* Array.prototype.filter(t => t !== x)
Without(s, x) == SelectSeq(s, LAMBDA e : e # x)

Last(s) == s[Len(s)]

Front(s) == SubSeq(s, 1, Len(s) - 1)

(* --------------------------- localStorage ----------------------------- *)

\* An entry of localStorage: absent (getItem gives null), the JSON text of
\* a value the program wrote, or a text that JSON.parse rejects (value is the
\* list a reader that passed over the SyntaxError would make of it).
Absent == [kind |-> "absent", value |-> <<>>]

Json(v) == [kind |-> "json", value |-> v]

Unparseable(v) == [kind |-> "corrupt", value |-> v]

\* Load without the try and catch around JSON.parse.
LoadUnguarded(entry) == entry.value

\* try { saved ? JSON.parse(saved) : [] } catch { [] }, as in lines 81-87 and
\* 124-130: null gives the empty list, a SyntaxError is caught and gives the
\* empty list.
Load(entry) ==
    IF entry.kind = "absent" THEN <<>>
    ELSE IF entry.kind = "corrupt" THEN <<>>
    ELSE entry.value

(* ------------------------------ inputs -------------------------------- *)

\* 'your-topic-here'
DefaultTopic == <<"y">>

\* What the user types into the topic field in Spec: two names, a blank and
\* nothing.
TopicInputs == {<<"a">>, <<"b">>, <<SP>>, <<>>}

TopicLetters == {"a", "b", "c", "d", "e", "f", "g", "h", "i", "j", "k"}

\* Eleven topic names: one more than the list of recent topics keeps.
TopicNames == {<<c>> : c \in TopicLetters}

\* What the user types into the topic field in SpecTopics: three names, a
\* name with blanks around it and a blank.
TypedTopics == {<<"a">>, <<"b">>, <<"c">>, <<SP, "a", SP>>, <<SP>>}

\* The entries of the rendered list the user clicks on in SpecTopics: the
\* first, the second and the last.
Positions(list) == {1, 2, Len(list)} \cap (1..Len(list))

HistoryKeys == TopicInputs \cup TypedTopics \cup TopicNames \cup {DefaultTopic}

Servers == {"https://ntfy.sh", "https://ntfy.example"}

E1 == [id |-> "1", message |-> "hi", time |-> TRUE]

E2 == [id |-> "2", message |-> "hi", time |-> FALSE]

E2t == [id |-> "2", message |-> "hi", time |-> TRUE]

Line1  == <<"{", "i1", "t", "m", "}">>
Line1b == <<"{", "i1", "m", "}">>
Line2  == <<"{", "i2", "m", "}">>
Line2t == <<"{", "i2", "t", "m", "}">>

\* The chunks the server sends in Spec: one record; two records, the first
\* with an id seen before, and the start of a third; and a chunk of lines
\* that are no events (blank, not JSON, without id, with a falsy id, without
\* message) before a record.
Chunks ==
    { Line1 \o <<NL>>,
      Line1b \o <<NL>> \o Line2 \o <<NL, "{">>,
      <<SP, NL, "x", NL, "{", "m", "}", NL, "{", "i0", "m", "}", NL,
        "{", "i1", "}", NL>> \o Line2t \o <<NL>> }

\* A line with a record: id n, a message and, for odd n, a time.
Record(n) ==
    <<"{", IdToken(n)>> \o (IF n % 2 = 1 THEN <<"t">> ELSE <<>>) \o <<"m", "}">>

\* The stream text with one line per id, in this order.
RECURSIVE RecordsText(_)
RecordsText(ids) ==
    IF ids = <<>> THEN <<>>
    ELSE Record(Head(ids)) \o <<NL>> \o RecordsText(Tail(ids))

\* The long stream of SpecStream: MaxRecords records, with the ids 2, 1, 4,
\* 3 and so on.
LongTexts ==
    { RecordsText([i \in 1..MaxRecords |-> IF i % 2 = 1 THEN i + 1 ELSE i - 1]) }

\* The short streams of SpecStream: every text of up to MaxText newlines,
\* blanks and other characters; two records and the start of a third; and
\* two records with the same id.
ShortTexts ==
    UNION {[1..n -> {NL, SP, "x"}] : n \in 0..MaxText}
        \cup { Line1b \o <<NL>> \o Line2 \o <<NL, "{">>,
               Line1 \o <<NL>> \o Line1b \o <<NL>> }

StreamTexts == LongTexts \cup ShortTexts

(* ------------------------------ state --------------------------------- *)

VARIABLES
    mounted,            \* the component's effects have run once
    server,             \* useState: server
    topic,              \* useState: topic
    messages,           \* useState: messages, as last rendered
    baseMessages,       \* the state the queued updates of messages apply to
    msgQueue,           \* updates of messages not yet rendered
    connected,          \* useState: connected
    errorInfo,          \* useState: errorInfo
    previousTopics,     \* useState: previousTopics, as last rendered
    baseTopics,         \* the state the queued updates of previousTopics apply to
    topicQueue,         \* updates of previousTopics not yet rendered
    history,            \* localStorage: ntfy-history-<topic>
    storedTopics,       \* localStorage: ntfy-previous-topics
    latestTopic,        \* localStorage: ntfy-latest-topic
    subs,               \* the calls of subscribe that opened a connection
    abortControllerRef, \* abortControllerRef.current: an index of subs or 0
    budget,             \* the events the user and the server may still cause
    wire,               \* SpecStream: the text the server has yet to send
    sent,               \* SpecStream: the text the reads have given so far
    framed,             \* SpecStream: the lines the line loop went through
    decoded             \* SpecStream: the lines handed to JSON.parse

vars == <<mounted, server, topic, messages, baseMessages, msgQueue,
          connected, errorInfo, previousTopics, baseTopics, topicQueue,
          history, storedTopics, latestTopic, subs, abortControllerRef,
          budget, wire, sent, framed, decoded>>

uiVars == <<mounted, server, topic>>

storageVars == <<history, storedTopics, latestTopic>>

framingVars == <<wire, sent, framed, decoded>>

NoError == "null"
EmptyTopicError == "Topic cannot be empty."
ClosedError == "Connection closed."
FailedError == "Connection failed. Check console."

(* --------------------------- state updates ---------------------------- *)

\* setMessages(value)
Replace(v) == [kind |-> "replace", value |-> v]

\* setMessages(prevMessages => ...) of the line loop: the closure holds the
\* parsed event and the topic of the render subscribe was made in; sub names
\* the call of subscribe it belongs to.
AppendUpdate(e, key, s) == [kind |-> "append", event |-> e, key |-> key, sub |-> s]

\* HasId finding nothing.
HasIdNever(msgs, id) == FALSE

\* prevMessages.some(msg => msg.id === parsedData.id)
HasId(msgs, id) == \E i \in 1..Len(msgs) : msgs[i].id = id

\* MessagesUpdater writing under the topic now active, not the closure's.
MessagesUpdaterActiveTopic(st, u) ==
    IF \E i \in 1..Len(st.m) : st.m[i].id = u.event.id
    THEN st
    ELSE LET newMessages == SubSeq(<<u.event>> \o st.m, 1,
                                   IF Len(st.m) + 1 < HistoryCap THEN Len(st.m) + 1
                                   ELSE HistoryCap)
         IN  [m |-> newMessages,
              h |-> [st.h EXCEPT ![topic] = Json(newMessages)]]

\* MessagesUpdater without the slice.
MessagesUpdaterUncapped(st, u) ==
    IF \E i \in 1..Len(st.m) : st.m[i].id = u.event.id
    THEN st
    ELSE [m |-> <<u.event>> \o st.m,
          h |-> [st.h EXCEPT ![u.key] = Json(<<u.event>> \o st.m)]]

\* The updater of setMessages: st.m is prevMessages, st.h the history
\* entries of localStorage, which it writes under the closure's topic.
MessagesUpdater(st, u) ==
    IF HasId(st.m, u.event.id)
    THEN st
    ELSE LET newMessages == Take(<<u.event>> \o st.m, HistoryCap)
         IN  [m |-> newMessages,
              h |-> [st.h EXCEPT ![u.key] = Json(newMessages)]]

ApplyMessageUpdate(st, u) ==
    IF u.kind = "replace" THEN [m |-> u.value, h |-> st.h]
    ELSE MessagesUpdater(st, u)

\* A render's pass over the queue of messages, oldest update first.
RECURSIVE RenderMessages(_, _)
RenderMessages(st, q) ==
    IF q = <<>> THEN st
    ELSE RenderMessages(ApplyMessageUpdate(st, Head(q)), Tail(q))

\* RecordTopicUse without the filter.
RecordTopicUseKeepsOld(prevTopics, t) ==
    SubSeq(<<t>> \o prevTopics, 1,
           IF Len(prevTopics) + 1 < TopicCap THEN Len(prevTopics) + 1 ELSE TopicCap)

\* RecordTopicUse leaving a topic the list holds where it is.
RecordTopicUseInPlace(prevTopics, t) ==
    IF \E i \in 1..Len(prevTopics) : prevTopics[i] = t
    THEN prevTopics
    ELSE SubSeq(<<t>> \o prevTopics, 1,
                IF Len(prevTopics) + 1 < TopicCap THEN Len(prevTopics) + 1
                ELSE TopicCap)

\* [topic.trim(), ...prevTopics.filter(t => t !== topic.trim())].slice(0, 10)
RecordTopicUse(prevTopics, t) == Take(<<t>> \o Without(prevTopics, t), TopicCap)

\* prevTopics.filter(topic => topic !== topicToRemove)
RemoveTopicFrom(prevTopics, t) == Without(prevTopics, t)

\* Both updaters of setPreviousTopics write the new list to localStorage.
ApplyTopicUpdate(st, u) ==
    LET newTopics == IF u.kind = "use" THEN RecordTopicUse(st.p, u.topic)
                     ELSE RemoveTopicFrom(st.p, u.topic)
    IN  [p |-> newTopics, s |-> Json(newTopics)]

RECURSIVE RenderTopics(_, _)
RenderTopics(st, q) ==
    IF q = <<>> THEN st
    ELSE RenderTopics(ApplyTopicUpdate(st, Head(q)), Tail(q))

(* --------------------------- subscriptions ---------------------------- *)

\* One call of subscribe that got past the topic check: its closure (topic,
\* server), its controller's signal, where its loop waits (pc: "fetch" at
\* line 139, "read" at line 157, "done" once the function has returned), the
\* text buffer of its loop, and the error it reported, if any.
NewSub(t, srv) ==
    [topic |-> t, server |-> srv, aborted |-> FALSE, pc |-> "fetch",
     buffer |-> <<>>, report |-> NoError]

\* subscribe has returned, having reported this or nothing: its loop and the
\* loop's buffer are gone.
Returned(sub, report) ==
    [sub EXCEPT !.pc = "done", !.buffer = <<>>, !.report = report]

\* AbortCurrent without the call of abort().
AbortCurrentForgotten(ss, ref) == ss

\* if (abortControllerRef.current) abortControllerRef.current.abort()
AbortCurrent(ss, ref) ==
    IF ref = 0 THEN ss ELSE [ss EXCEPT ![ref].aborted = TRUE]

\* Subscribe without the test of the topic.
SubscribeAnyTopic(t, srv) ==
    /\ subs' = Append(IF abortControllerRef = 0 THEN subs
                      ELSE [subs EXCEPT ![abortControllerRef].aborted = TRUE],
                      [topic |-> t, server |-> srv, aborted |-> FALSE,
                       pc |-> "fetch", buffer |-> <<>>, report |-> "null"])
    /\ abortControllerRef' = Len(subs) + 1
    /\ msgQueue' = Append(msgQueue,
                          [kind |-> "replace",
                           value |-> IF history[t].kind = "json"
                                     THEN history[t].value ELSE <<>>])
    /\ UNCHANGED <<connected, errorInfo>>

\* The synchronous part of subscribe(), lines 113-136, run for topic t and
\* server srv after the cleanup of the previous effect (lines 215-219).
Subscribe(t, srv) ==
    LET cancelled == AbortCurrent(AbortCurrent(subs, abortControllerRef),
                                  abortControllerRef)
    IN  IF Trim(t) = <<>>
        THEN /\ subs' = cancelled
             /\ connected' = FALSE
             /\ errorInfo' = EmptyTopicError
             /\ UNCHANGED <<abortControllerRef, msgQueue>>
        ELSE /\ subs' = Append(cancelled, NewSub(t, srv))
             /\ abortControllerRef' = Len(subs) + 1
             /\ msgQueue' = Append(msgQueue, Replace(Load(history[t])))
             /\ UNCHANGED <<connected, errorInfo>>

\* The effect of lines 223-235, run when topic has changed to t.
TopicEffect(t) ==
    IF Trim(t) # <<>>
    THEN /\ latestTopic' = Json(Trim(t))
         /\ topicQueue' = Append(topicQueue, [kind |-> "use", topic |-> Trim(t)])
    ELSE UNCHANGED <<latestTopic, topicQueue>>

\* Catch without the test of the error's name.
CatchWithoutTest(s, name) ==
    /\ subs' = [subs EXCEPT ![s] = Returned(subs[s], FailedError)]
    /\ connected' = FALSE
    /\ errorInfo' = FailedError

\* The catch of subscribe, lines 203-209, for subscription s and an error of
\* this name.
Catch(s, name) ==
    IF name # "AbortError"
    THEN /\ subs' = [subs EXCEPT ![s] = Returned(subs[s], FailedError)]
         /\ connected' = FALSE
         /\ errorInfo' = FailedError
    ELSE /\ subs' = [subs EXCEPT ![s] = Returned(subs[s], NoError)]
         /\ UNCHANGED <<connected, errorInfo>>

\* The name of the error a pending fetch or read of s is rejected with:
\* abort() rejects it with an AbortError, the network with a TypeError.
RejectionName(s) == IF subs[s].aborted THEN "AbortError" ELSE "TypeError"

\* The lines a chunk completes: the segments of buffer + chunk but the last.
CompleteLines(buffer, chunk) == Front(Split(buffer \o chunk))

\* Remainder forgetting the text after the last newline.
RemainderDropped(buffer, chunk) == <<>>

\* buffer = lines.pop()
Remainder(buffer, chunk) == Last(Split(buffer \o chunk))

\* if (line.trim() === '') continue
NonBlank(lines) == SelectSeq(lines, LAMBDA l : Trim(l) # <<>>)

\* The updates the line loop (lines 170-201) queues for these lines.
RECURSIVE LineUpdates(_, _, _)
LineUpdates(lines, key, s) ==
    IF lines = <<>> THEN <<>>
    ELSE LET line == Head(lines)
             p    == Parse(line)
             rest == LineUpdates(Tail(lines), key, s)
         IN  IF Trim(line) = <<>> THEN rest
             ELSE IF IsValidEvent(p)
                  THEN <<AppendUpdate(EventOf(p), key, s)>> \o rest
                  ELSE rest

(* ------------------------------ Init ---------------------------------- *)

\* What localStorage holds when the page is opened: nothing, or what an
\* earlier visit that used topic a after topic b, and received an event on
\* each, left behind.
FreshStorage ==
    [h |-> [k \in HistoryKeys |-> Absent], s |-> Absent, l |-> Absent]

UsedStorage ==
    [h |-> [k \in HistoryKeys |-> IF k = <<"a">> THEN Json(<<E1>>)
                                  ELSE IF k = <<"b">> THEN Json(<<E2t>>)
                                  ELSE Absent],
     s |-> Json(<<<<"a">>, <<"b">>>>),
     l |-> Json(<<"a">>)]

\* The entries of topics a and b and the list of recent topics hold text
\* that is no JSON; the latest topic is a.
CorruptStorage ==
    [h |-> [k \in HistoryKeys |->
               IF k \in {<<"a">>, <<"b">>}
               THEN Unparseable(<<[id |-> "x", message |-> "x", time |-> FALSE]>>)
               ELSE Absent],
     s |-> Unparseable(<< <<"x">> >>),
     l |-> Json(<<"a">>)]

\* An earlier visit used topic a and then removed every recent topic.
ClearedStorage ==
    [h |-> [k \in HistoryKeys |-> Absent], s |-> Json(<<>>), l |-> Json(<<"a">>)]

\* An earlier visit used ten topics, k first and b last.
FullStorage ==
    [h |-> [k \in HistoryKeys |-> Absent],
     s |-> Json(<< <<"b">>, <<"c">>, <<"d">>, <<"e">>, <<"f">>, <<"g">>, <<"h">>,
                   <<"i">>, <<"j">>, <<"k">> >>),
     l |-> Json(<<"b">>)]

\* The state after the useState initialisers (lines 62-88) for this content
\* of localStorage, before any effect has run, with this text for the server
\* to stream and this number of events to come.
InitWith(storage, text, n) ==
    /\ mounted = FALSE
    /\ server = "https://ntfy.sh"
    /\ topic = (IF storage.l.kind = "json" THEN storage.l.value ELSE DefaultTopic)
    /\ messages = <<>>
    /\ baseMessages = <<>>
    /\ msgQueue = <<>>
    /\ connected = FALSE
    /\ errorInfo = NoError
    /\ previousTopics = Load(storage.s)
    /\ baseTopics = Load(storage.s)
    /\ topicQueue = <<>>
    /\ history = storage.h
    /\ storedTopics = storage.s
    /\ latestTopic = storage.l
    /\ subs = <<>>
    /\ abortControllerRef = 0
    /\ budget = n
    /\ wire = text
    /\ sent = <<>>
    /\ framed = <<>>
    /\ decoded = <<>>

Init == InitWith(UsedStorage, <<>>, MaxEvents)

InitStream == \E text \in StreamTexts : InitWith(FreshStorage, text, 0)

InitStorage ==
    \E storage \in {FreshStorage, CorruptStorage} :
        InitWith(storage, <<>>, MaxEvents)

InitTopics ==
    \E storage \in {ClearedStorage, UsedStorage, FullStorage} :
        InitWith(storage, <<>>, MaxTopicEvents)

(* ----------------------------- actions -------------------------------- *)

\* The first commit: the effects of lines 213-220 and 223-235 run.
Mount ==
    /\ ~mounted
    /\ mounted' = TRUE
    /\ Subscribe(topic, server)
    /\ TopicEffect(topic)
    /\ UNCHANGED <<server, topic, messages, baseMessages, previousTopics,
                   baseTopics, history, storedTopics, budget>>
    /\ UNCHANGED framingVars

\* The user edits the topic field or clicks a recent topic (lines 237-239):
\* the render with the new topic, the cleanup of the old subscription effect,
\* then both effects.
ChangeTopic(t) ==
    /\ mounted
    /\ t # topic
    /\ budget > 0
    /\ budget' = budget - 1
    /\ topic' = t
    /\ Subscribe(t, server)
    /\ TopicEffect(t)
    /\ UNCHANGED <<mounted, server, messages, baseMessages, previousTopics,
                   baseTopics, history, storedTopics>>
    /\ UNCHANGED framingVars

SetTopic == \E t \in TopicInputs : ChangeTopic(t)

\* The user types into the topic field, in SpecTopics.
TypeTopic == \E t \in TypedTopics : ChangeTopic(t)

\* handleTopicClick on an entry of the rendered list.
TopicClick ==
    \E i \in Positions(previousTopics) : ChangeTopic(previousTopics[i])

\* The user edits the server field: subscribe is made anew and the effect of
\* lines 213-220 runs again for the same topic.
SetServer ==
    \E srv \in Servers :
        /\ mounted
        /\ srv # server
        /\ budget > 0
        /\ budget' = budget - 1
        /\ server' = srv
        /\ Subscribe(topic, srv)
        /\ UNCHANGED <<mounted, topic, messages, baseMessages, previousTopics,
                       baseTopics, topicQueue, history, storedTopics,
                       latestTopic>>
        /\ UNCHANGED framingVars

\* A render: the queued updates of messages and of previousTopics are
\* applied in the order they were queued; the updaters write localStorage.
Render ==
    /\ msgQueue # <<>> \/ topicQueue # <<>>
    /\ LET ms == RenderMessages([m |-> baseMessages, h |-> history], msgQueue)
           ts == RenderTopics([p |-> baseTopics, s |-> storedTopics], topicQueue)
       IN  /\ messages' = ms.m
           /\ baseMessages' = ms.m
           /\ history' = ms.h
           /\ previousTopics' = ts.p
           /\ baseTopics' = ts.p
           /\ storedTopics' = ts.s
    /\ msgQueue' = <<>>
    /\ topicQueue' = <<>>
    /\ UNCHANGED <<connected, errorInfo, latestTopic, subs, abortControllerRef,
                   budget>>
    /\ UNCHANGED uiVars
    /\ UNCHANGED framingVars

\* ClearMessages removing the entry of every topic.
ClearMessagesEverywhere ==
    /\ mounted
    /\ budget > 0
    /\ budget' = budget - 1
    /\ messages' = <<>>
    /\ baseMessages' = <<>>
    /\ msgQueue' = <<>>
    /\ history' = [k \in HistoryKeys |-> Absent]
    /\ UNCHANGED <<connected, errorInfo, previousTopics, baseTopics, topicQueue,
                   storedTopics, latestTopic, subs, abortControllerRef>>
    /\ UNCHANGED uiVars
    /\ UNCHANGED framingVars

\* handleClearMessages, lines 347-350.  The click's render shows the empty
\* list at once; updates queued before it are still applied, by a later
\* render, to the state they were queued on, and the empty list after them
\* (a second setMessages([]) in a row adds nothing to that).
ClearMessages ==
    /\ mounted
    /\ budget > 0
    /\ budget' = budget - 1
    /\ messages' = <<>>
    /\ IF msgQueue = <<>>
       THEN baseMessages' = <<>> /\ msgQueue' = <<>>
       ELSE /\ baseMessages' = baseMessages
            /\ msgQueue' = IF Last(msgQueue) = Replace(<<>>) THEN msgQueue
                           ELSE Append(msgQueue, Replace(<<>>))
    /\ history' = [history EXCEPT ![topic] = Absent]
    /\ UNCHANGED <<connected, errorInfo, previousTopics, baseTopics, topicQueue,
                   storedTopics, latestTopic, subs, abortControllerRef>>
    /\ UNCHANGED uiVars
    /\ UNCHANGED framingVars

\* handleRemoveTopic, lines 241-247, on an entry of the rendered list.  The
\* click's render applies the removals to the state the queue starts from,
\* passing over the uses the effects queued before it; a later render
\* applies the whole queue in order.
RemoveTopic ==
    \E i \in Positions(previousTopics) :
        LET u      == [kind |-> "remove", topic |-> previousTopics[i]]
            clicks == SelectSeq(Append(topicQueue, u), LAMBDA x : x.kind = "remove")
            shown  == RenderTopics([p |-> baseTopics, s |-> storedTopics], clicks)
        IN  /\ mounted
            /\ budget > 0
            /\ budget' = budget - 1
            /\ previousTopics' = shown.p
            /\ storedTopics' = shown.s
            /\ IF topicQueue = <<>>
               THEN baseTopics' = shown.p /\ topicQueue' = <<>>
               ELSE baseTopics' = baseTopics /\ topicQueue' = Append(topicQueue, u)
            /\ UNCHANGED <<messages, baseMessages, msgQueue, connected, errorInfo,
                           history, latestTopic, subs, abortControllerRef>>
            /\ UNCHANGED uiVars
            /\ UNCHANGED framingVars

(* ---------------------- the connection's events ----------------------- *)

restOfUi == <<messages, baseMessages, previousTopics, baseTopics, topicQueue,
              abortControllerRef>>

\* The fetch of subscription s resolves (line 139 returns).  With
\* response.ok the loop starts (lines 148-154); otherwise line 145 throws an
\* Error, which the catch takes.
FetchResolves(s, ok) ==
    /\ subs[s].pc = "fetch"
    /\ ~subs[s].aborted
    /\ IF ok
       THEN /\ subs' = [subs EXCEPT ![s].pc = "read", ![s].buffer = <<>>]
            /\ connected' = TRUE
            /\ errorInfo' = NoError
       ELSE Catch(s, "Error")
    /\ UNCHANGED <<msgQueue, budget>>
    /\ UNCHANGED restOfUi
    /\ UNCHANGED uiVars
    /\ UNCHANGED storageVars
    /\ UNCHANGED framingVars

\* The pending fetch (line 139) or read (line 157) of s is rejected: by
\* abort() once the signal is aborted, by a network failure before.
Rejected(s) ==
    /\ subs[s].pc \in {"fetch", "read"}
    /\ Catch(s, RejectionName(s))
    /\ UNCHANGED <<msgQueue, budget>>
    /\ UNCHANGED restOfUi
    /\ UNCHANGED uiVars
    /\ UNCHANGED storageVars
    /\ UNCHANGED framingVars

\* reader.read() of s gives done (lines 158-164).
ReadDone(s) ==
    /\ subs[s].pc = "read"
    /\ IF ~subs[s].aborted
       THEN /\ subs' = [subs EXCEPT ![s] = Returned(subs[s], ClosedError)]
            /\ connected' = FALSE
            /\ errorInfo' = ClosedError
       ELSE /\ subs' = [subs EXCEPT ![s] = Returned(subs[s], NoError)]
            /\ UNCHANGED <<connected, errorInfo>>
    /\ UNCHANGED <<msgQueue, budget>>
    /\ UNCHANGED restOfUi
    /\ UNCHANGED uiVars
    /\ UNCHANGED storageVars
    /\ UNCHANGED framingVars

\* reader.read() of s gives a chunk (lines 166-201): the buffer takes it, the
\* complete lines are gone through, the rest stays in the buffer.  An
\* aborted signal has errored the body, which hands out no chunk after that.
TakeChunk(s, chunk) ==
    /\ subs[s].pc = "read"
    /\ ~subs[s].aborted
    /\ subs' = [subs EXCEPT ![s].buffer = Remainder(subs[s].buffer, chunk)]
    /\ msgQueue' = msgQueue \o LineUpdates(CompleteLines(subs[s].buffer, chunk),
                                           subs[s].topic, s)
    /\ UNCHANGED <<connected, errorInfo>>
    /\ UNCHANGED restOfUi
    /\ UNCHANGED uiVars
    /\ UNCHANGED storageVars

ReadChunk(s, chunk) ==
    /\ budget > 0
    /\ budget' = budget - 1
    /\ TakeChunk(s, chunk)
    /\ UNCHANGED framingVars

\* reader.read() of s gives the next tokens of the text the server streams,
\* in SpecStream: any number of them up to MaxChunk.
ReadFromWire(s) ==
    \E n \in 1..(IF Len(wire) < MaxChunk THEN Len(wire) ELSE MaxChunk) :
        LET chunk == SubSeq(wire, 1, n)
            lines == CompleteLines(subs[s].buffer, chunk)
        IN  /\ TakeChunk(s, chunk)
            /\ wire' = SubSeq(wire, n + 1, Len(wire))
            /\ sent' = sent \o chunk
            /\ framed' = framed \o lines
            /\ decoded' = decoded \o NonBlank(lines)
            /\ UNCHANGED budget

FetchEnds == \E s \in DOMAIN subs : \E ok \in BOOLEAN : FetchResolves(s, ok)

RequestFails == \E s \in DOMAIN subs : Rejected(s)

StreamEnds == \E s \in DOMAIN subs : ReadDone(s)

ChunkArrives == \E s \in DOMAIN subs : \E chunk \in Chunks : ReadChunk(s, chunk)

Next ==
    \/ Mount
    \/ SetTopic
    \/ SetServer
    \/ Render
    \/ ClearMessages
    \/ FetchEnds
    \/ RequestFails
    \/ StreamEnds
    \/ ChunkArrives

Spec == Init /\ [][Next]_vars

StreamArrives == \E s \in DOMAIN subs : ReadFromWire(s)

\* One subscription reading a stream text chunk by chunk.
NextStream ==
    \/ Mount
    \/ FetchEnds
    \/ StreamArrives
    \/ StreamEnds
    \/ Render

SpecStream == InitStream /\ [][NextStream]_vars

\* The page opened on a localStorage that holds nothing or text that is no
\* JSON: what Spec does, and the removal of recent topics.
NextStorage ==
    \/ Mount
    \/ SetTopic
    \/ SetServer
    \/ Render
    \/ ClearMessages
    \/ RemoveTopic
    \/ FetchEnds
    \/ RequestFails
    \/ StreamEnds
    \/ ChunkArrives

SpecStorage == InitStorage /\ [][NextStorage]_vars

\* The user choosing and removing topics.
NextTopics ==
    \/ Mount
    \/ TypeTopic
    \/ TopicClick
    \/ RemoveTopic
    \/ Render

SpecTopics == InitTopics /\ [][NextTopics]_vars

(* ------------------------------ claims -------------------------------- *)

\* The calls of subscribe whose controller has not been asked to abort.
Uncancelled == {s \in DOMAIN subs : ~subs[s].aborted}

\* A loop of subscribe that is still waiting for its fetch or a read.
Waiting(s) == subs[s].pc \in {"fetch", "read"}

\* C2: in every reachable state at most one subscription holds a connection
\* handle whose cancellation has not been requested, and it is the one
\* abortControllerRef holds; so no two read loops are live together.
C2_AtMostOneUncancelled ==
    /\ Cardinality(Uncancelled) <= 1
    /\ \A s \in Uncancelled : s = abortControllerRef

\* A second subscription reads its stream while the first, cancelled, has
\* not yet seen its pending read rejected.
C2_Witness ==
    /\ Len(subs) = 2
    /\ subs[1].aborted /\ subs[1].pc = "read"
    /\ ~subs[2].aborted /\ subs[2].pc = "read"

\* C3: once cancellation of a subscription has been requested, no step makes
\* it report: it sets neither 'Connection closed.' nor 'Connection failed.',
\* and the step in which it returns changes neither connected nor errorInfo.
C3_CancelledNeverReports ==
    [][\A s \in DOMAIN subs :
          subs[s].aborted =>
              /\ subs'[s].report = subs[s].report
              /\ (Waiting(s) /\ subs'[s].pc = "done") =>
                     (connected' = connected /\ errorInfo' = errorInfo)]_vars

\* A cancelled subscription has returned without a report while the page
\* shows the connection of its successor.
C3_Witness ==
    /\ Len(subs) = 2
    /\ subs[1].aborted /\ subs[1].pc = "done" /\ subs[1].report = NoError
    /\ connected /\ errorInfo = NoError

\* The queued updates that add an event received by subscription s.
AppendsOf(q, s) == SelectSeq(q, LAMBDA u : u.kind = "append" /\ u.sub = s)

\* The places of the setMessages(value) calls in a queue.
Replaces(q) == {i \in DOMAIN q : q[i].kind = "replace"}

LastReplace(q) == CHOOSE i \in Replaces(q) : \A j \in Replaces(q) : j <= i

\* The events a render may show after a queue that holds a
\* setMessages(value): those of the last value set and those queued after
\* it.
AfterLastReplace(q) ==
    LET r == LastReplace(q)
    IN  {q[r].value[i] : i \in DOMAIN q[r].value}
            \cup {q[j].event : j \in {k \in DOMAIN q : k > r /\ q[k].kind = "append"}}

Events(msgs) == {msgs[i] : i \in DOMAIN msgs}

\* The step changes the topic to the non-blank t: every subscription made
\* before has been asked to cancel, and the last update queued sets the
\* in-memory history to what is persisted for t (empty if nothing is).
C1_SwitchCancelsAndLoads(t) ==
    /\ \A s \in DOMAIN subs : subs'[s].aborted
    /\ msgQueue' # <<>>
    /\ Last(msgQueue') = Replace(IF history[t].kind = "json" THEN history[t].value
                                 ELSE <<>>)

\* C1: when the active topic changes from A to a non-blank B, A's
\* subscription is cancelled and the in-memory history is replaced by B's
\* persisted history; a cancelled subscription queues no event any more;
\* what the old connection queued before the switch comes before that
\* replacement, so that the render after the switch shows only B's loaded
\* history and events of B's connection; and a persisted history is written
\* only with events received on a connection to that very topic.
C1_SwitchIsolatesTopics ==
    [][/\ \A t \in TopicInputs :
              (ChangeTopic(t) /\ Trim(t) # <<>>) => C1_SwitchCancelsAndLoads(t)
       /\ \A s \in DOMAIN subs :
              subs[s].aborted => Len(AppendsOf(msgQueue', s)) <= Len(AppendsOf(msgQueue, s))
       /\ (Trim(topic') # <<>> /\ mounted') =>
              \A i \in DOMAIN msgQueue' :
                  (msgQueue'[i].kind = "append" /\ msgQueue'[i].sub # abortControllerRef')
                      => \E j \in Replaces(msgQueue') : j > i
       /\ (Render /\ Replaces(msgQueue) # {} /\ Trim(topic) # <<>>) =>
              Events(messages') \subseteq AfterLastReplace(msgQueue)
       /\ \A k \in HistoryKeys :
              (history'[k] # history[k] /\ history'[k].kind = "json") =>
                  \E i \in DOMAIN msgQueue :
                      /\ msgQueue[i].kind = "append"
                      /\ subs[msgQueue[i].sub].topic = k
                      /\ msgQueue[i].event \in Events(history'[k].value)
      ]_vars

\* Topic b has replaced topic a while an event received on a's connection
\* was still queued: it has been rendered and persisted under a, the
\* in-memory history is b's, and b's connection is open.
C1_Witness ==
    /\ Len(subs) = 2
    /\ subs[1].topic = <<"a">> /\ subs[1].aborted
    /\ subs[2].topic = <<"b">> /\ subs[2].pc = "read"
    /\ topic = <<"b">>
    /\ msgQueue = <<>>
    /\ messages = <<E2t>>
    /\ history[<<"a">>] = [kind |-> "json", value |-> <<E2, E1>>]
    /\ history[<<"b">>] = [kind |-> "json", value |-> <<E2t>>]

Ids(msgs) == {msgs[i].id : i \in DOMAIN msgs}

\* C5: a render of queued events adds one entry for each id the current
\* history does not hold and nothing for an event whose id it holds: the
\* entries it had stay, unreplaced and in their order, behind the new ones;
\* when every queued id is already held, the history stays as it is in
\* memory and in localStorage.
C5_DuplicateIdLeavesHistory ==
    [][(/\ Render
        /\ msgQueue # <<>>
        /\ \A i \in DOMAIN msgQueue : msgQueue[i].kind = "append")
           => LET fresh == {msgQueue[i].event.id : i \in DOMAIN msgQueue} \ Ids(messages)
                  k     == Cardinality(fresh)
              IN  /\ Len(messages') = Len(messages) + k
                  /\ SubSeq(messages', k + 1, Len(messages')) = messages
                  /\ Cardinality(Ids(messages')) = Len(messages')
                  /\ (k = 0) => (history' = history)]_vars

\* Topic a's history held the event with id 1 (with a time); one chunk
\* brought a second event with id 1 (without time) and an event with id 2:
\* after the render the first event with id 1 is still the only one.
C5_Witness ==
    /\ budget = MaxEvents - 1
    /\ Len(subs) = 1
    /\ topic = <<"a">>
    /\ msgQueue = <<>>
    /\ messages = <<E2, E1>>
    /\ history[<<"a">>] = [kind |-> "json", value |-> <<E2, E1>>]

\* The line decodes to an object whose id and message are both there and
\* are not empty.
C6_IsEvent(line) ==
    LET p == Parse(line)
    IN  /\ p.ok
        /\ p.id \notin {Undefined, ""}
        /\ p.message \notin {Undefined, ""}

\* C6: a chunk queues one update per completed line that decodes to an object
\* with id and message, in the order of the lines, and nothing for any other
\* line (blank, not JSON, without id or message); it changes neither the
\* history nor connected nor errorInfo, and the loop goes on reading.
C6_OtherLinesAreSkipped ==
    [][\A s \in DOMAIN subs : \A chunk \in Chunks :
          ReadChunk(s, chunk) =>
              LET good == SelectSeq(Front(Split(subs[s].buffer \o chunk)), C6_IsEvent)
                  new  == SubSeq(msgQueue', Len(msgQueue) + 1, Len(msgQueue'))
              IN  /\ Len(new) = Len(good)
                  /\ \A i \in DOMAIN good :
                         /\ new[i].kind = "append"
                         /\ new[i].event.id = Parse(good[i]).id
                         /\ new[i].event.time = Parse(good[i]).time
                  /\ SubSeq(msgQueue', 1, Len(msgQueue)) = msgQueue
                  /\ messages' = messages
                  /\ history' = history
                  /\ connected' = connected
                  /\ errorInfo' = errorInfo
                  /\ subs'[s].pc = "read"]_vars

\* The chunk of five lines that are no events and a sixth that is one has
\* been read on topic a, whose history held one event: the loop is still
\* reading, no error is shown, and the sixth line's event is in the history
\* before the one it held.
C6_Witness ==
    /\ budget = MaxEvents - 1
    /\ Len(subs) = 1
    /\ topic = <<"a">>
    /\ subs[1].pc = "read" /\ subs[1].buffer = <<>>
    /\ connected /\ errorInfo = NoError
    /\ msgQueue = <<>>
    /\ messages = <<E2t, E1>>
    /\ history[<<"a">>] = [kind |-> "json", value |-> <<E2t, E1>>]

\* C8: a click on Clear Messages while topic T is active empties the
\* in-memory history and removes T's persisted entry, and leaves every other
\* topic's persisted history, the recent-topics list (in memory and
\* persisted), the latest topic and the subscriptions as they were.
C8_ClearTouchesOnlyActiveTopic ==
    [][ClearMessages =>
           /\ messages' = <<>>
           /\ history'[topic] = [kind |-> "absent", value |-> <<>>]
           /\ \A k \in HistoryKeys \ {topic} : history'[k] = history[k]
           /\ UNCHANGED <<previousTopics, baseTopics, topicQueue, storedTopics,
                          latestTopic, subs, abortControllerRef, connected,
                          errorInfo, topic, server>>]_vars

\* Clear Messages has been clicked on topic a, whose history was shown and
\* persisted: it is empty and a's entry is gone, while b's entry, the list
\* of recent topics and the open connection are as before.
C8_Witness ==
    /\ budget = MaxEvents - 1
    /\ topic = <<"a">>
    /\ messages = <<>> /\ msgQueue = <<>>
    /\ history[<<"a">>] = Absent
    /\ history[<<"b">>] = [kind |-> "json", value |-> <<E2t>>]
    /\ previousTopics = << <<"a">>, <<"b">> >>
    /\ Len(subs) = 1 /\ subs[1].pc = "read" /\ connected

\* The events of the lines handed to JSON.parse that decoded to an event, in
\* the order they were received.
ReceivedEvents ==
    LET good == SelectSeq(decoded, C6_IsEvent)
    IN  [i \in 1..Len(good) |->
            [id      |-> Parse(good[i]).id,
             message |-> Parse(good[i]).message,
             time    |-> Parse(good[i]).time]]

Reverse(seq) == [i \in 1..Len(seq) |-> seq[Len(seq) + 1 - i]]

\* C4: with one subscription to a topic whose history started empty and
\* valid records of pairwise distinct ids received on it, the history in
\* memory holds exactly the records rendered so far (all those received once
\* nothing is queued), the most recently received first, cut to the 50 most
\* recently received; and the entry persisted under the topic's key holds
\* the same (no entry before the first record, and no other key is written).
C4_NewestFirstCapped ==
    LET received == ReceivedEvents
        queued   == Len(SelectSeq(msgQueue, LAMBDA u : u.kind = "append"))
        rendered == SubSeq(received, 1, Len(received) - queued)
        newest   == Reverse(rendered)
        expected == SubSeq(newest, 1, IF Len(newest) < 50 THEN Len(newest) ELSE 50)
    IN  (/\ Len(subs) = 1
         /\ \A i, j \in DOMAIN received : i # j => received[i].id # received[j].id)
            => /\ messages = expected
               /\ expected # <<>> =>
                      history[topic] = [kind |-> "json", value |-> expected]
               /\ expected = <<>> => history[topic].kind = "absent"
               /\ \A k \in HistoryKeys \ {topic} : history[k].kind = "absent"

\* The 52 records with the ids 2, 1, 4, 3, ..., 52, 51 have been received
\* and rendered: the history holds the 50 received last, 51 first and 4
\* last, in memory and persisted, and the two received first are gone.
C4_Witness ==
    /\ wire = <<>> /\ msgQueue = <<>>
    /\ Len(ReceivedEvents) = 52
    /\ Len(messages) = 50
    /\ messages[1].id = "51" /\ messages[2].id = "52"
    /\ messages[49].id = "3" /\ messages[50].id = "4"
    /\ history[topic] = [kind |-> "json", value |-> messages]

\* The newline-terminated segments of a text, in order: one for each newline,
\* holding what stands between it and the newline before (or the start).
RECURSIVE SegmentsFrom(_, _, _)
SegmentsFrom(text, i, start) ==
    IF i > Len(text) THEN <<>>
    ELSE IF text[i] = "NL"
         THEN <<SubSeq(text, start, i - 1)>> \o SegmentsFrom(text, i + 1, i + 1)
         ELSE SegmentsFrom(text, i + 1, start)

Segments(text) == SegmentsFrom(text, 1, 1)

\* What follows the last newline of a text.
RECURSIVE Unterminated(_)
Unterminated(text) ==
    IF text = <<>> \/ text[Len(text)] = "NL" THEN <<>>
    ELSE Append(Unterminated(SubSeq(text, 1, Len(text) - 1)), text[Len(text)])

HasText(line) == \E i \in DOMAIN line : line[i] \notin {"NL", "SP"}

\* C7: however the text sent so far was cut into chunks, the lines the line
\* loop has gone through are the newline-terminated segments of that text, in
\* order and each once; those of them that are not blank are the lines handed
\* to JSON.parse, in order and each once; and the loop holds what follows the
\* last newline until a later chunk ends it.
C7_FramingIgnoresChunkBoundaries ==
    /\ framed = Segments(sent)
    /\ decoded = SelectSeq(Segments(sent), HasText)
    /\ \A s \in DOMAIN subs :
           subs[s].pc = "read" => subs[s].buffer = Unterminated(sent)

\* A chunk ended within the second record: the first has been handed to
\* JSON.parse, the start of the second waits in the buffer, its end is yet
\* to come.
C7_Witness ==
    /\ sent = <<"{", "i1", "m", "}", "NL", "{", "i2">>
    /\ wire = <<"m", "}", "NL", "{">>
    /\ framed = << <<"{", "i1", "m", "}">> >>
    /\ decoded = framed
    /\ Len(subs) = 1 /\ subs[1].buffer = <<"{", "i2">>

NoDuplicates(list) ==
    \A i, j \in DOMAIN list : i # j => list[i] # list[j]

\* The list of recent topics as persisted.
PersistedTopics == IF storedTopics.kind = "json" THEN storedTopics.value ELSE <<>>

\* The step is the render after one recordTopicUse(t): t is at the front,
\* the other entries follow in the order they had, those beyond the tenth
\* place are dropped, and the list is persisted.
C9_UseMovesToFront ==
    (Render /\ Len(topicQueue) = 1 /\ topicQueue[1].kind = "use") =>
        LET t      == topicQueue[1].topic
            others == SelectSeq(previousTopics, LAMBDA x : x # t)
            n      == IF Len(others) + 1 < 10 THEN Len(others) + 1 ELSE 10
        IN  /\ HasText(t)
            /\ previousTopics' = <<t>> \o SubSeq(others, 1, n - 1)
            /\ storedTopics' = [kind |-> "json", value |-> previousTopics']

\* The step removes one entry of the list and keeps the others in order.
C9_RemovalKeepsOrder ==
    RemoveTopic =>
        /\ \E i \in DOMAIN previousTopics :
               previousTopics' = SelectSeq(previousTopics,
                                           LAMBDA x : x # previousTopics[i])
        /\ storedTopics' = [kind |-> "json", value |-> previousTopics']

\* C9: after any sequence of topic selections and removals the list of recent
\* topics, in memory and as persisted, has no entry twice and at most 10
\* entries; the render after recordTopicUse(t) for a non-blank t puts t at
\* the front with the other entries in their previous relative order, so
\* that the eleventh distinct topic used pushes out the one used longest ago;
\* and a removal keeps the order of what stays.
C9_RecentTopicsUniqueAndBounded ==
    /\ [](/\ NoDuplicates(previousTopics) /\ Len(previousTopics) <= 10
          /\ NoDuplicates(PersistedTopics) /\ Len(PersistedTopics) <= 10)
    /\ [][C9_UseMovesToFront /\ C9_RemovalKeepsOrder]_vars

\* Ten topics were used on an earlier visit, k first and b last; topic a, the
\* eleventh, has been used and rendered: a is at the front and k is gone.
C9_Witness ==
    /\ topicQueue = <<>>
    /\ previousTopics = << <<"a">>, <<"b">>, <<"c">>, <<"d">>, <<"e">>, <<"f">>,
                           <<"g">>, <<"h">>, <<"i">>, <<"j">> >>
    /\ storedTopics = [kind |-> "json", value |-> previousTopics]
    /\ topic = <<"a">>

\* The topics recordTopicUse has been called with, in order: every call of
\* subscribe that opened a connection was made for a topic that the topic
\* effect recorded in the same commit.
UsedTopics == [i \in DOMAIN subs |-> Trim(subs[i].topic)]

WasUsed(t) == \E i \in DOMAIN UsedTopics : UsedTopics[i] = t

LastUse(t) ==
    CHOOSE i \in DOMAIN UsedTopics :
        UsedTopics[i] = t /\ \A j \in DOMAIN UsedTopics : UsedTopics[j] = t => j <= i

AThenBThenCThenA == << <<"a">>, <<"b">>, <<"c">>, <<"a">> >>

\* C10, as the code has it: the list is ordered by the latest use, most
\* recent first, with the entries not used on this visit behind; so
\* recordTopicUse applied to a, b, c and then to a again yields the order
\* [a, c, b], in memory and persisted.
C10_ReuseMovesToFront ==
    topicQueue = <<>> =>
        /\ \A i, j \in DOMAIN previousTopics :
               (i < j /\ WasUsed(previousTopics[j])) =>
                   /\ WasUsed(previousTopics[i])
                   /\ LastUse(previousTopics[i]) > LastUse(previousTopics[j])
        /\ (/\ UsedTopics = AThenBThenCThenA
            /\ \A t \in {<<"a">>, <<"b">>, <<"c">>} :
                   \E i \in DOMAIN previousTopics : previousTopics[i] = t)
               => /\ SubSeq(previousTopics, 1, 3) = << <<"a">>, <<"c">>, <<"b">> >>
                  /\ previousTopics = PersistedTopics

\* Topic a was the latest topic of a visit that left no recent topic; a, b,
\* c and a again have been used and rendered.
C10_Witness ==
    /\ UsedTopics = AThenBThenCThenA
    /\ topicQueue = <<>>
    /\ previousTopics = << <<"a">>, <<"c">>, <<"b">> >>
    /\ storedTopics = [kind |-> "json", value |-> previousTopics]

\* C10, as the claim has it: recordTopicUse applied to a, b, c and then to a
\* again yields the order [a, b, c].
C10_ReuseKeepsOrderOfFirstUse ==
    (/\ topicQueue = <<>>
     /\ UsedTopics = AThenBThenCThenA
     /\ Len(previousTopics) = 3
     /\ \A t \in {<<"a">>, <<"b">>, <<"c">>} :
            \E i \in DOMAIN previousTopics : previousTopics[i] = t)
        => previousTopics = << <<"a">>, <<"b">>, <<"c">> >>

\* C11: a step that makes a blank topic (empty or only blanks) the active
\* one opens no connection: no call of subscribe is added, every controller
\* has been asked to abort, connected is false and the error is 'Topic
\* cannot be empty.'; the in-memory history is not reloaded; and neither the
\* latest topic nor the list of recent topics (in memory, queued or
\* persisted) takes the blank topic.
C11_BlankTopicOpensNothing ==
    [][(topic' # topic /\ \A i \in DOMAIN topic' : topic'[i] \in {"SP", "NL"}) =>
           /\ Len(subs') = Len(subs)
           /\ \A s \in DOMAIN subs' :
                  /\ subs'[s].aborted
                  /\ subs'[s].pc = subs[s].pc
           /\ connected' = FALSE
           /\ errorInfo' = "Topic cannot be empty."
           /\ msgQueue' = msgQueue
           /\ UNCHANGED <<latestTopic, topicQueue, previousTopics, storedTopics,
                          history>>]_vars

\* Topic a, with its open connection, has been replaced by a blank topic:
\* a's connection has been asked to abort, none was opened, the error is
\* shown, and the latest topic and the recent topics are those of before.
C11_Witness ==
    /\ topic = <<"SP">>
    /\ Len(subs) = 1 /\ subs[1].aborted /\ subs[1].topic = <<"a">>
    /\ ~connected /\ errorInfo = "Topic cannot be empty."
    /\ topicQueue = <<>>
    /\ latestTopic = [kind |-> "json", value |-> <<"a">>]
    /\ previousTopics = << <<"a">>, <<"b">> >>
    /\ storedTopics = [kind |-> "json", value |-> previousTopics]

\* The entry holds no JSON text: it is absent or JSON.parse rejects it.
NothingToLoad(entry) == entry.kind \in {"absent", "corrupt"}

\* C12: loading an entry that is absent or that JSON.parse rejects gives the
\* empty list and stops nothing.  The list of recent topics read at startup
\* is empty; a call of subscribe for a non-blank topic whose entry is such
\* sets the in-memory history to the empty list and opens its connection;
\* what a render then persists, the history of received events and the list
\* of recent topics after a use, is well-formed and equal to what is in
\* memory; and so is the list after a removal.
C12_UnreadableStorageLoadsEmpty ==
    [][/\ (~mounted /\ NothingToLoad(storedTopics)) => previousTopics = <<>>
       /\ (Len(subs') = Len(subs) + 1 /\ NothingToLoad(history[topic'])) =>
              /\ msgQueue' # <<>>
              /\ msgQueue'[Len(msgQueue')].kind = "replace"
              /\ Len(msgQueue'[Len(msgQueue')].value) = 0
              /\ subs'[Len(subs')].pc = "fetch"
              /\ ~subs'[Len(subs')].aborted
              /\ subs'[Len(subs')].topic = topic'
       /\ (Render /\ topicQueue # <<>>) =>
              storedTopics' = [kind |-> "json", value |-> previousTopics']
       /\ RemoveTopic =>
              storedTopics' = [kind |-> "json", value |-> previousTopics']
       /\ Render =>
              \A k \in HistoryKeys :
                  history'[k] # history[k] =>
                      /\ history'[k].kind = "json"
                      /\ Len(history'[k].value) > 0
                      /\ \A i \in DOMAIN history'[k].value :
                             history'[k].value[i].id \in {"1", "2"}
      ]_vars

\* The page was opened on entries that are no JSON: topic a's connection is
\* open, the event received on it is the whole history, in memory and
\* persisted, the list of recent topics holds a alone, and topic b's entry
\* is still the text it was.
C12_Witness ==
    /\ topic = <<"a">>
    /\ Len(subs) = 1 /\ subs[1].pc = "read" /\ connected
    /\ msgQueue = <<>> /\ topicQueue = <<>>
    /\ Len(messages) = 1 /\ messages[1].id = "1"
    /\ history[<<"a">>] = [kind |-> "json", value |-> messages]
    /\ history[<<"b">>].kind = "corrupt"
    /\ previousTopics = << <<"a">> >>
    /\ storedTopics = [kind |-> "json", value |-> previousTopics]

\* C13: in every reachable state connected is true only if the current
\* subscription, the one whose controller abortControllerRef holds, has had
\* its connection opened and has since not been asked to abort nor seen its
\* stream closed or failed: so connected is false once the stream has been
\* closed or a read has failed, and while a replacement connection is still
\* opening.
C13_ConnectedOnlyWhileCurrentIsOpen ==
    connected =>
        /\ abortControllerRef # 0
        /\ subs[abortControllerRef].pc = "read"
        /\ ~subs[abortControllerRef].aborted

\* Topic a's connection was open when topic b replaced it: a's controller
\* has been asked to abort, b's fetch is still pending, and connected is
\* still true.
C13_Witness ==
    /\ connected
    /\ topic = <<"b">>
    /\ Len(subs) = 2 /\ abortControllerRef = 2
    /\ subs[1].topic = <<"a">> /\ subs[1].aborted
    /\ subs[2].topic = <<"b">> /\ subs[2].pc = "fetch" /\ ~subs[2].aborted

=============================================================================
